---- MODULE Spec2Model ----
(***************************************************************************)
(* The "It takes a walk" notebook (src/it-takes-a-walk.ipynb) as a state   *)
(* machine: one action per executed cell or statement, from the cell that  *)
(* builds yearly_crimes_20 to the export of the two isochrone polygons.    *)
(* A cell that raises stops the run (pc = "error", err = exception name).  *)
(* The two HTTP services are the environment: every response they can send *)
(* is a nondeterministic choice of the fetch actions.                      *)
(***************************************************************************)
EXTENDS Integers, Sequences, FiniteSets, TLC

VARIABLES
  pc,      \* the statement the kernel executes next, "done" or "error"
  err,     \* name of the exception that stopped the run, NoError otherwise
  month,   \* number of get_month_crime calls already returned (0..12)
  r,       \* the requests.Response held by the running call, NoResponse otherwise
  months,  \* the list literal handed to pd.concat: the month tables so far
  gets,    \* number of HTTP GETs issued so far
  env,     \* the notebook's global names: name -> value
  Out,     \* the values the cells display: name -> number
  files,   \* the output directory: path -> table written
  served,  \* the records the police API has sent so far, in order
  requested \* the date parameters of the police GETs sent so far, in order

vars == <<pc, err, month, r, months, gets, env, Out, files, served, requested>>

----------------------------------------------------------------------------
(* Bounds of the model *)

\* most records the police API returns over the year, bulk payload aside
MaxRows == 2

(* Program constants *)

\* the twelve get_month_crime calls of the concat cell
NumMonths == 12
\* Nomis 2011 population figures the notebook divides by
BlackYouthPopulation == 6592
WhiteYouthPopulation == 202544

----------------------------------------------------------------------------
(* Strings.  TLC cannot index a string, so every string the run meets is   *)
(* spelled out once, and the string functions work on the spelling.        *)

Chars ==
  "Black" :> <<"B", "l", "a", "c", "k">> @@
  "White" :> <<"W", "h", "i", "t", "e">> @@
  "18-24" :> <<"1", "8", "-", "2", "4">> @@
  "Male" :> <<"M", "a", "l", "e">> @@
  "Arrest" :> <<"A", "r", "r", "e", "s", "t">> @@
  "Black/African/Caribbean/Black British - African" :> <<"B", "l", "a", "c", "k", "/", "A", "f", "r", "i", "c", "a", "n", "/", "C", "a", "r", "i", "b", "b", "e", "a", "n", "/", "B", "l", "a", "c", "k", " ", "B", "r", "i", "t", "i", "s", "h", " ", "-", " ", "A", "f", "r", "i", "c", "a", "n">> @@
  "White - English/Welsh/Scottish/Northern Irish/British" :> <<"W", "h", "i", "t", "e", " ", "-", " ", "E", "n", "g", "l", "i", "s", "h", "/", "W", "e", "l", "s", "h", "/", "S", "c", "o", "t", "t", "i", "s", "h", "/", "N", "o", "r", "t", "h", "e", "r", "n", " ", "I", "r", "i", "s", "h", "/", "B", "r", "i", "t", "i", "s", "h">> @@
  "Mixed/Multiple ethnic groups - White and Black Caribbean" :> <<"M", "i", "x", "e", "d", "/", "M", "u", "l", "t", "i", "p", "l", "e", " ", "e", "t", "h", "n", "i", "c", " ", "g", "r", "o", "u", "p", "s", " ", "-", " ", "W", "h", "i", "t", "e", " ", "a", "n", "d", " ", "B", "l", "a", "c", "k", " ", "C", "a", "r", "i", "b", "b", "e", "a", "n">> @@
  "over 34" :> <<"o", "v", "e", "r", " ", "3", "4">> @@
  "Female" :> <<"F", "e", "m", "a", "l", "e">> @@
  "A no further action disposal" :> <<"A", " ", "n", "o", " ", "f", "u", "r", "t", "h", "e", "r", " ", "a", "c", "t", "i", "o", "n", " ", "d", "i", "s", "p", "o", "s", "a", "l">> @@
  "Community resolution" :> <<"C", "o", "m", "m", "u", "n", "i", "t", "y", " ", "r", "e", "s", "o", "l", "u", "t", "i", "o", "n">> @@
  "53.420561" :> <<"5", "3", ".", "4", "2", "0", "5", "6", "1">> @@
  "-2.961643" :> <<"-", "2", ".", "9", "6", "1", "6", "4", "3">> @@
  "53.404856" :> <<"5", "3", ".", "4", "0", "4", "8", "5", "6">> @@
  "-2.982918" :> <<"-", "2", ".", "9", "8", "2", "9", "1", "8">>

\* Python's None, as a value of a raw or normalized field
None == "<None>"

\* re.match in place of re.search: pat only at the start of s
ContainsAtStart(s, pat) ==
  Len(pat) <= Len(s) /\ SubSeq(s, 1, Len(pat)) = pat

\* re.search(pat, s) for a pattern without metacharacters, as
\* Series.str.contains evaluates it on one string value: true iff pat occurs
\* in s at some offset, case-sensitively
Contains(s, pat) ==
  \E i \in 0..(Len(s) - Len(pat)) : SubSeq(s, i + 1, i + Len(pat)) = pat

\* every (value, pattern) pair evaluated once
Matches ==
  [v \in DOMAIN Chars |-> [pat \in DOMAIN Chars |-> Contains(Chars[v], Chars[pat])]]

\* Series.str.contains(pat, na=False) on one cell of the column: a missing
\* value (None/NaN) gives the na value, False
str_contains(v, pat) ==
  IF v = None THEN FALSE ELSE Matches[v][pat]

\* the decimal digits float() accepts
DigitVal ==
  "0" :> 0 @@ "1" :> 1 @@ "2" :> 2 @@ "3" :> 3 @@ "4" :> 4 @@
  "5" :> 5 @@ "6" :> 6 @@ "7" :> 7 @@ "8" :> 8 @@ "9" :> 9

RECURSIVE DigitsValue(_, _)
\* value of a digit string, acc being the value of the digits already read
DigitsValue(ds, acc) ==
  IF ds = <<>> THEN acc
  ELSE DigitsValue(Tail(ds), 10 * acc + DigitVal[Head(ds)])

RECURSIVE Normalize(_)
\* the number m / 10^e with e as small as possible
Normalize(f) ==
  IF f.e > 0 /\ f.m % 10 = 0 THEN Normalize([m |-> f.m \div 10, e |-> f.e - 1])
  ELSE f

\* float(s) for a decimal literal [-]ddd[.ddd]: the number m / 10^e.
\* ok = FALSE stands for the ValueError float raises on anything else.
ParseFloat(s) ==
  LET neg    == s # <<>> /\ Head(s) = "-"
      body   == IF neg THEN Tail(s) ELSE s
      dots   == {i \in 1..Len(body) : body[i] = "."}
      dot    == IF dots = {} THEN Len(body) + 1 ELSE CHOOSE i \in dots : TRUE
      ip     == SubSeq(body, 1, dot - 1)
      fp     == SubSeq(body, dot + 1, Len(body))
      digits == ip \o fp
      valid  == /\ Cardinality(dots) <= 1
                /\ digits # <<>>
                /\ \A i \in 1..Len(digits) : digits[i] \in DOMAIN DigitVal
      mag    == DigitsValue(digits, 0)
  IN IF ~valid THEN [ok |-> FALSE]
     ELSE [ok |-> TRUE,
           value |-> Normalize([m |-> IF neg THEN 0 - mag ELSE mag, e |-> Len(fp)])]

\* float() of every coordinate string, evaluated once
FloatOf == [s \in DOMAIN Chars |-> ParseFloat(Chars[s])]

----------------------------------------------------------------------------
(* What the police API sends: raw stop-and-search records *)

\* a raw record as data.police.uk returns it (the keys the notebook reads)
RawEvent(age, outcome, involved, gender, ethnicity, officer, loc, dt) ==
  [age_range |-> age, outcome |-> outcome, involved_person |-> involved,
   gender |-> gender, self_defined_ethnicity |-> ethnicity,
   datetime |-> dt, location |-> loc, officer_defined_ethnicity |-> officer]

LocTamarClose ==
  [latitude |-> "53.420561",
   street |-> [id |-> 914481, name |-> "On or near Tamar Close"],
   longitude |-> "-2.961643"]
LocCentral ==
  [latitude |-> "53.404856",
   street |-> [id |-> 912345, name |-> "On or near Bold Street"],
   longitude |-> "-2.982918"]
\* a location object without its latitude key
LocNoLatitude ==
  [street |-> [id |-> 912345, name |-> "On or near Bold Street"],
   longitude |-> "-2.982918"]

BlackYouthMale ==
  RawEvent("18-24", "Arrest", TRUE, "Male",
           "Black/African/Caribbean/Black British - African", "Black",
           LocCentral, "2020-01-06T10:11:23+00:00")
BlackYouthFemale ==
  RawEvent("18-24", "Community resolution", TRUE, "Female",
           "Black/African/Caribbean/Black British - African", "White",
           LocTamarClose, "2020-02-11T18:40:00+00:00")
WhiteAdultMale ==
  RawEvent("over 34", "A no further action disposal", TRUE, "Male",
           "White - English/Welsh/Scottish/Northern Irish/British", "Black",
           LocTamarClose, "2020-03-02T09:00:00+00:00")
MixedYouthMale ==
  RawEvent("18-24", "Arrest", TRUE, "Male",
           "Mixed/Multiple ethnic groups - White and Black Caribbean", "Black",
           LocCentral, "2020-04-21T23:15:00+00:00")
Unrecorded ==
  RawEvent(None, None, FALSE, None, None, None,
           LocTamarClose, "2020-05-30T12:00:00+00:00")
NoLatitude ==
  RawEvent("18-24", "Arrest", TRUE, "Male",
           "Black/African/Caribbean/Black British - African", "Black",
           LocNoLatitude, "2020-06-01T08:30:00+00:00")

RawRecords ==
  {BlackYouthMale, BlackYouthFemale, WhiteAdultMale, MixedYouthMale,
   Unrecorded, NoLatitude}

\* sequences over S of length at most n
SeqsUpTo(S, n) == UNION {[1..k -> S] : k \in 0..n}

(* A response body is either text json.loads rejects or the JSON value it  *)
(* yields: a list of items, or a dict (of which only the keys matter).     *)
NotJson == [json |-> FALSE]
JsonList(items) == [json |-> TRUE, value |-> [type |-> "list", items |-> items]]
JsonDict(keys) == [json |-> TRUE, value |-> [type |-> "dict", keys |-> keys]]

Response(status, content) == [status_code |-> status, content |-> content]

\* a year in which black_youth outgrows the population figure it is divided by
BulkLen == BlackYouthPopulation + 1
BulkBody == JsonList([i \in 1..BulkLen |-> BlackYouthMale])

\* 2xx answers of stops-street: a JSON array of records, `room` bounding its length
PoliceSuccess(room) ==
  {Response(200, JsonList(items)) : items \in SeqsUpTo(RawRecords, room)}

\* non-2xx answers: 503 (area holds too many results), 429 (rate limit),
\* with an error page, an empty array or an error object as the body
PoliceFailure ==
  {Response(s, c) : s \in {429, 503},
                    c \in {NotJson, JsonList(<<>>), JsonDict(<<"error">>)}}

Success(status) == status >= 200 /\ status < 300

----------------------------------------------------------------------------
(* The functions of the notebook *)

Ok(v) == [ok |-> TRUE, value |-> v]
Raise(exc) == [ok |-> FALSE, exc |-> exc]

\* json.loads(r.content)
json_loads(content) ==
  IF content.json THEN Ok(content.value) ELSE Raise("JSONDecodeError")

Min(S) == CHOOSE x \in S : \A y \in S : x <= y

\* parse_ss_event(cr): the dict literal reads the keys in this order and the
\* first missing key raises KeyError; float() raises ValueError on a string
\* that is no number
parse_ss_event(cr) ==
  IF \/ {"age_range", "outcome", "involved_person", "gender",
         "self_defined_ethnicity", "location"} \ DOMAIN cr # {}
     \/ "street" \notin DOMAIN cr.location
     \/ "id" \notin DOMAIN cr.location.street
     \/ "longitude" \notin DOMAIN cr.location
  THEN Raise("KeyError")
  ELSE IF ~FloatOf[cr.location.longitude].ok THEN Raise("ValueError")
  ELSE IF "latitude" \notin DOMAIN cr.location THEN Raise("KeyError")
  ELSE IF ~FloatOf[cr.location.latitude].ok THEN Raise("ValueError")
  ELSE IF {"datetime", "officer_defined_ethnicity"} \ DOMAIN cr # {}
  THEN Raise("KeyError")
  ELSE Ok([age_range |-> cr.age_range,
           outcome |-> cr.outcome,
           involed_person |-> cr.involved_person,
           gender |-> cr.gender,
           self_defined_ethnicity |-> cr.self_defined_ethnicity,
           street_id |-> cr.location.street.id,
           longitude |-> FloatOf[cr.location.longitude].value,
           latitude |-> FloatOf[cr.location.latitude].value,
           date |-> cr.datetime,
           officer_ethnicity |-> cr.officer_defined_ethnicity])

\* pd.DataFrame(list_of_series): one row per Series under the labels 0..n-1,
\* the columns being the Series' keys (none for an empty list)
DataFrame(series) ==
  [columns |-> UNION {DOMAIN series[i] : i \in 1..Len(series)},
   rows |-> [i \in 1..Len(series) |-> [index |-> i - 1, cols |-> series[i]]]]

\* parsing(stop_and_search): the loop raises at the first item parse_ss_event
\* rejects; iterating a dict yields its keys, strings, and indexing a string
\* with 'age_range' raises TypeError
parsing(stop_and_search) ==
  IF stop_and_search.type = "dict"
  THEN IF stop_and_search.keys = <<>> THEN Ok(DataFrame(<<>>))
       ELSE Raise("TypeError")
  ELSE LET items == stop_and_search.items
           pcs == [i \in 1..Len(items) |-> parse_ss_event(items[i])]
           bad == {i \in 1..Len(items) : ~pcs[i].ok}
       IN IF bad # {} THEN Raise(pcs[Min(bad)].exc)
          ELSE Ok(DataFrame([i \in 1..Len(items) |-> pcs[i].value]))

RECURSIVE ConcatRowsPrepend(_)
\* each frame put in front of the ones before it
ConcatRowsPrepend(frames) ==
  IF frames = <<>> THEN <<>>
  ELSE ConcatRowsPrepend(Tail(frames)) \o Head(frames).rows

RECURSIVE ConcatRows(_)
\* the rows of the frames, one frame after the other
ConcatRows(frames) ==
  IF frames = <<>> THEN <<>>
  ELSE Head(frames).rows \o ConcatRows(Tail(frames))

\* pd.concat(frames): the rows of the frames in list order, index labels kept
\* (no ignore_index), over the union of their columns
pd_concat(frames) ==
  [columns |-> UNION {frames[i].columns : i \in 1..Len(frames)},
   rows |-> ConcatRows(frames)]

\* gpd.points_from_xy(x, y) then gpd.GeoDataFrame(df, geometry=points, crs=crs):
\* one Point(x, y) per row, in row order, as the column 'geometry'
GeoDataFrame(df, xcol, ycol, crs) ==
  [columns |-> df.columns \cup {"geometry"},
   rows |-> [i \in 1..Len(df.rows) |->
               [index |-> df.rows[i].index,
                cols |-> [c \in df.columns \cup {"geometry"} |->
                            IF c = "geometry"
                            THEN [type |-> "Point",
                                  x |-> df.rows[i].cols[xcol],
                                  y |-> df.rows[i].cols[ycol]]
                            ELSE df.rows[i].cols[c]]]],
   crs |-> crs]

\* a mask that is one row out of step: row i is kept when entry i + 1 is True
BoolIndexShifted(df, mask) ==
  LET tagged == [i \in 1..Len(df.rows) |->
                   [row |-> df.rows[i],
                    keep |-> i < Len(df.rows) /\ mask[i + 1]]]
      kept == SelectSeq(tagged, LAMBDA t : t.keep)
  IN [df EXCEPT !.rows = [k \in 1..Len(kept) |-> kept[k].row]]

\* a selection that renumbers the rows it keeps from 0
BoolIndexReset(df, mask) ==
  LET tagged == [i \in 1..Len(df.rows) |->
                   [row |-> df.rows[i], keep |-> mask[i]]]
      kept == SelectSeq(tagged, LAMBDA t : t.keep)
  IN [df EXCEPT !.rows = [k \in 1..Len(kept) |->
                            [kept[k].row EXCEPT !.index = k - 1]]]

\* df[mask]: the rows whose mask entry is True, in order, with their labels,
\* columns and CRS
BoolIndex(df, mask) ==
  LET tagged == [i \in 1..Len(df.rows) |->
                   [row |-> df.rows[i], keep |-> mask[i]]]
      kept == SelectSeq(tagged, LAMBDA t : t.keep)
  IN [df EXCEPT !.rows = [k \in 1..Len(kept) |-> kept[k].row]]

\* df[col].str.contains(pat, na=False): the boolean mask, one entry per row
ColContains(df, col, pat) ==
  [i \in 1..Len(df.rows) |-> str_contains(df.rows[i].cols[col], pat)]

\* mask1 & mask2
MaskAnd(mask1, mask2) == [i \in DOMAIN mask1 |-> mask1[i] /\ mask2[i]]

\* mask1 | mask2
MaskOr(mask1, mask2) == [i \in DOMAIN mask1 |-> mask1[i] \/ mask2[i]]

\* len(df)
len(df) == Len(df.rows)

\* a Python float that is the quotient num / den of two integers
Quotient(num, den) == [num |-> num, den |-> den]

\* name = value in the notebook's namespace (a rebinding replaces the value)
Bind(ns, name, value) ==
  [x \in DOMAIN ns \cup {name} |-> IF x = name THEN value ELSE ns[x]]

----------------------------------------------------------------------------
(* The isochrone service *)

\* closed rings of [longitude, latitude] vertices, in micro-degrees
Ring5 ==
  << <<-2981696, 53407078>>, <<-2977072, 53405856>>, <<-2983918, 53401447>>,
     <<-2981696, 53407078>> >>
Ring10 ==
  << <<-2978886, 53409888>>, <<-2971650, 53404856>>, <<-2983918, 53398520>>,
     <<-2993605, 53404856>>, <<-2978886, 53409888>> >>

Feature(contour, color, ring) ==
  [type |-> "Feature",
   properties |-> [contour |-> contour, color |-> color, metric |-> "time"],
   geometry |-> [type |-> "Polygon", coordinates |-> <<ring>>]]

Walk5Feature == Feature(5, "#6706ce", Ring5)
Walk10Feature == Feature(10, "#04e813", Ring10)

FeatureCollection(features) ==
  [json |-> TRUE,
   value |-> [type |-> "dict", keys |-> <<"features", "type">>,
              features |-> features]]

\* answers of the isochrone endpoint for contours_minutes=5,10: the two
\* polygons in either order; or a refusal of the token, a JSON message
IsochroneResponses ==
  {Response(200, FeatureCollection(<<Walk10Feature, Walk5Feature>>)),
   Response(200, FeatureCollection(<<Walk5Feature, Walk10Feature>>)),
   Response(401, JsonDict(<<"message">>)),
   Response(502, NotJson)}

\* a shape() that re-orients the exterior ring
shape_reoriented(geometry) ==
  LET ring == geometry.coordinates[1]
  IN [type |-> "Polygon",
      exterior |-> [i \in 1..Len(ring) |-> ring[Len(ring) + 1 - i]],
      interiors |-> Tail(geometry.coordinates)]

\* shapely's shape() on a GeoJSON Polygon: the first ring is the exterior,
\* closed with its first vertex when the input leaves it open
shape(geometry) ==
  LET ring == geometry.coordinates[1]
  IN [type |-> "Polygon",
      exterior |-> IF ring # <<>> /\ ring[1] # ring[Len(ring)]
                   THEN Append(ring, ring[1]) ELSE ring,
      interiors |-> Tail(geometry.coordinates)]

\* gpd.GeoDataFrame.from_features(features, crs=crs): one row per feature,
\* its properties as columns plus the geometry
from_features(features, crs) ==
  [columns |-> UNION {DOMAIN features[i].properties : i \in 1..Len(features)}
                 \cup {"geometry"},
   rows |-> [i \in 1..Len(features) |->
               [index |-> i - 1,
                cols |-> [c \in DOMAIN features[i].properties \cup {"geometry"} |->
                            IF c = "geometry" THEN shape(features[i].geometry)
                            ELSE features[i].properties[c]]]],
   crs |-> crs]

----------------------------------------------------------------------------
(* The run *)

NoError == "none"

Init ==
  /\ pc = "get_month_crime"
  /\ err = NoError
  /\ month = 0
  /\ r = <<>>
  /\ months = <<>>
  /\ gets = 0
  /\ env = <<>>
  /\ Out = <<>>
  /\ files = <<>>
  /\ served = <<>>
  /\ requested = <<>>

\* the cell raises: the run stops there and nothing is bound or written
Fail(exc) ==
  /\ pc' = "error"
  /\ err' = exc
  /\ UNCHANGED <<month, r, months, gets, env, Out, files, served, requested>>

\* name = value, then on to the next statement
Assign(name, value, next) ==
  /\ env' = Bind(env, name, value)
  /\ pc' = next
  /\ UNCHANGED <<err, month, r, months, gets, Out, files, served, requested>>

\* a division that yields NaN (0/0 as numpy has it) and lets the run go on
DisplayNaN(name, num, den, next) ==
  /\ Out' = Bind(Out, name, Quotient(num, den))
  /\ pc' = next
  /\ UNCHANGED <<err, month, r, months, gets, env, files, served, requested>>

\* a cell that displays num / den: ZeroDivisionError when den is zero
Display(name, num, den, next) ==
  IF den = 0 THEN Fail("ZeroDivisionError")
  ELSE /\ Out' = Bind(Out, name, Quotient(num, den))
       /\ pc' = next
       /\ UNCHANGED <<err, month, r, months, gets, env, files, served, requested>>

\* name = num / den, displayed as well
AssignQuotient(name, num, den, next) ==
  IF den = 0 THEN Fail("ZeroDivisionError")
  ELSE /\ env' = Bind(env, name, Quotient(num, den))
       /\ Out' = Bind(Out, name, Quotient(num, den))
       /\ pc' = next
       /\ UNCHANGED <<err, month, r, months, gets, files, served, requested>>

\* name = df[mask], KeyError when the mask reads a column df lacks
Subset(name, df, needed, mask, next) ==
  IF needed \ df.columns # {} THEN Fail("KeyError")
  ELSE Assign(name, BoolIndex(df, mask), next)

\* df.to_file(path, driver="GPKG"): the file holds the rows, or the write
\* fails (disk, permission) and the cell raises
\* an export that, when it fails, also removes the files written before it
ToFileRollback(df, path, next) ==
  \/ /\ files' = Bind(files, path, df)
     /\ pc' = next
     /\ UNCHANGED <<err, month, r, months, gets, env, Out, served, requested>>
  \/ /\ files' = <<>>
     /\ pc' = "error"
     /\ err' = "OSError"
     /\ UNCHANGED <<month, r, months, gets, env, Out, served, requested>>

ToFile(df, path, next) ==
  \/ /\ files' = Bind(files, path, df)
     /\ pc' = next
     /\ UNCHANGED <<err, month, r, months, gets, env, Out, served, requested>>
  \/ Fail("OSError")

TotalRows(frames) == Len(ConcatRows(frames))

\* the records a response body carries
Records(content) ==
  IF content.json /\ content.value.type = "list" THEN content.value.items
  ELSE <<>>

\* the month and year arguments of the twelve calls, in the order of the
\* list literal
MonthArgs ==
  <<"01", "02", "03", "04", "05", "06", "07", "08", "09", "10", "11", "12">>

Year == "2020"

\* the date query parameter of the url: {year}-{month}
DateParam(year, mon) == [year |-> year, month |-> mon]

\* a GET that is sent again while the call still holds a response
FetchAgain(responses) ==
  /\ pc = "get_month_crime"
  /\ \E resp \in responses :
       /\ r' = <<resp>>
       /\ served' = served \o Records(resp.content)
  /\ gets' = gets + 1
  /\ requested' = Append(requested, DateParam(Year, MonthArgs[month + 1]))
  /\ UNCHANGED <<pc, err, month, months, env, Out, files>>

\* get_month_crime, first half: r = requests.get(url)
Fetch(responses) ==
  /\ pc = "get_month_crime"
  /\ r = <<>>
  /\ \E resp \in responses :
       /\ r' = <<resp>>
       /\ served' = served \o Records(resp.content)
  /\ gets' = gets + 1
  /\ requested' = Append(requested, DateParam(Year, MonthArgs[month + 1]))
  /\ UNCHANGED <<pc, err, month, months, env, Out, files>>

\* rows the year may still take within the bound
Room(frames) ==
  IF TotalRows(frames) >= MaxRows THEN 0 ELSE MaxRows - TotalRows(frames)

FetchMonth == Fetch(PoliceSuccess(Room(months)) \cup PoliceFailure)

\* the year whose first non-empty month is the bulk payload
FetchBulk == TotalRows(months) = 0 /\ Fetch({Response(200, BulkBody)})

\* get_month_crime, second half: mcrimes = json.loads(r.content);
\* month_db = parsing(mcrimes); return month_db (the next list element)
ParseMonth ==
  /\ pc = "get_month_crime"
  /\ r # <<>>
  /\ LET mcrimes == json_loads(r[1].content)
         month_db == parsing(mcrimes.value)
     IN IF ~mcrimes.ok THEN Fail(mcrimes.exc)
        ELSE IF ~month_db.ok THEN Fail(month_db.exc)
        ELSE /\ months' = Append(months, month_db.value)
             /\ month' = month + 1
             /\ r' = <<>>
             /\ pc' = IF month + 1 = NumMonths THEN "concat" ELSE "get_month_crime"
             /\ UNCHANGED <<err, gets, env, Out, files, served, requested>>

\* yearly_crimes_20 = pd.concat([...])
Concat ==
  /\ pc = "concat"
  /\ env' = Bind(env, "yearly_crimes_20", pd_concat(months))
  /\ months' = <<>>
  /\ pc' = "crimes_geodf_20"
  /\ UNCHANGED <<err, month, r, gets, Out, files, served, requested>>

\* points = gpd.points_from_xy(...); crimes_geodf_20 = gpd.GeoDataFrame(...):
\* reading a column the annual table lacks raises KeyError
GeoTag ==
  /\ pc = "crimes_geodf_20"
  /\ IF {"longitude", "latitude"} \ env.yearly_crimes_20.columns # {}
     THEN Fail("KeyError")
     ELSE Assign("crimes_geodf_20",
                 GeoDataFrame(env.yearly_crimes_20, "longitude", "latitude",
                              "EPSG:27700"),
                 "black")

\* black = crimes_geodf_20[...['self_defined_ethnicity'].str.contains('Black', na=False)]
Black ==
  /\ pc = "black"
  /\ Subset("black", env.crimes_geodf_20, {"self_defined_ethnicity"},
            ColContains(env.crimes_geodf_20, "self_defined_ethnicity", "Black"),
            "white")

\* white = crimes_geodf_20[...['self_defined_ethnicity'].str.contains('White', na=False)]
White ==
  /\ pc = "white"
  /\ Subset("white", env.crimes_geodf_20, {"self_defined_ethnicity"},
            ColContains(env.crimes_geodf_20, "self_defined_ethnicity", "White"),
            "bk_percentage")

\* bk_percentage = (len(black) / len(crimes_geodf_20))
BkPercentage ==
  /\ pc = "bk_percentage"
  /\ AssignQuotient("bk_percentage", len(env.black), len(env.crimes_geodf_20),
                    "wh_percentage")

\* wh_percentage = (len(white) / len(crimes_geodf_20))
WhPercentage ==
  /\ pc = "wh_percentage"
  /\ AssignQuotient("wh_percentage", len(env.white), len(env.crimes_geodf_20),
                    "bk_overrepresentation")

\* bk_percentage / 0.026
BkOverrepresentation ==
  /\ pc = "bk_overrepresentation"
  /\ Display("bk_overrepresentation", env.bk_percentage.num * 1000,
             env.bk_percentage.den * 26, "wh_underrepresentation")

\* wh_percentage / 0.889
WhUnderrepresentation ==
  /\ pc = "wh_underrepresentation"
  /\ Display("wh_underrepresentation", env.wh_percentage.num * 1000,
             env.wh_percentage.den * 889, "black_per_day")

\* len(black)/365
BlackPerDay ==
  /\ pc = "black_per_day"
  /\ Display("black_per_day", len(env.black), 365, "black_youth")

\* black_youth = black[black['age_range'].str.contains('18-24', na=False)]
BlackYouth ==
  /\ pc = "black_youth"
  /\ Subset("black_youth", env.black, {"age_range"},
            ColContains(env.black, "age_range", "18-24"),
            "black_youth_share")

\* (len(black_youth)/len(black))*100
BlackYouthShare ==
  /\ pc = "black_youth_share"
  /\ Display("black_youth_share", 100 * len(env.black_youth), len(env.black),
             "bk_youth_sex")

\* bk_youth_sex = black_youth[black_youth['gender'].str.contains('Male', na=False)]
BkYouthSex ==
  /\ pc = "bk_youth_sex"
  /\ Subset("bk_youth_sex", env.black_youth, {"gender"},
            ColContains(env.black_youth, "gender", "Male"),
            "bk_youth_male_share")

\* len(bk_youth_sex)/len(black_youth)
BkYouthMaleShare ==
  /\ pc = "bk_youth_male_share"
  /\ Display("bk_youth_male_share", len(env.bk_youth_sex), len(env.black_youth),
             "bk_youth_percentage")

\* bk_youth_percentage = (len(black_youth)/6592)
BkYouthPercentage ==
  /\ pc = "bk_youth_percentage"
  /\ AssignQuotient("bk_youth_percentage", len(env.black_youth),
                    BlackYouthPopulation, "white_youth")

\* white_youth = white[white['age_range'].str.contains('18-24', na=False)]
WhiteYouth ==
  /\ pc = "white_youth"
  /\ Subset("white_youth", env.white, {"age_range"},
            ColContains(env.white, "age_range", "18-24"),
            "wh_youth_percentage")

\* wh_youth_percentage = (len(white_youth)/202544)*100
WhYouthPercentage ==
  /\ pc = "wh_youth_percentage"
  /\ AssignQuotient("wh_youth_percentage", 100 * len(env.white_youth),
                    WhiteYouthPopulation, "youth_ratio")

\* bk_youth_percentage/wh_youth_percentage: a float division, ZeroDivisionError
\* when wh_youth_percentage is 0.0
YouthRatio ==
  /\ pc = "youth_ratio"
  /\ Display("youth_ratio",
             env.bk_youth_percentage.num * env.wh_youth_percentage.den,
             env.bk_youth_percentage.den * env.wh_youth_percentage.num,
             "arrested")

\* arrested = crimes_geodf_20[...['outcome'].str.contains('Arrest', na=False)]
Arrested ==
  /\ pc = "arrested"
  /\ Subset("arrested", env.crimes_geodf_20, {"outcome"},
            ColContains(env.crimes_geodf_20, "outcome", "Arrest"),
            "bk_arrested")

\* bk_arrested = crimes_geodf_20[<'Black' in self_defined_ethnicity> & <'Arrest' in outcome>]
BkArrested ==
  /\ pc = "bk_arrested"
  /\ Subset("bk_arrested", env.crimes_geodf_20,
            {"self_defined_ethnicity", "outcome"},
            MaskAnd(ColContains(env.crimes_geodf_20, "self_defined_ethnicity", "Black"),
                    ColContains(env.crimes_geodf_20, "outcome", "Arrest")),
            "wh_arrested")

\* wh_arrested = crimes_geodf_20[<'White' in self_defined_ethnicity> & <'Arrest' in outcome>]
WhArrested ==
  /\ pc = "wh_arrested"
  /\ Subset("wh_arrested", env.crimes_geodf_20,
            {"self_defined_ethnicity", "outcome"},
            MaskAnd(ColContains(env.crimes_geodf_20, "self_defined_ethnicity", "White"),
                    ColContains(env.crimes_geodf_20, "outcome", "Arrest")),
            "bk_arrest_rate")

\* (len(bk_arrested)/len(black))*100
BkArrestRate ==
  /\ pc = "bk_arrest_rate"
  /\ Display("bk_arrest_rate", 100 * len(env.bk_arrested), len(env.black),
             "wh_arrest_rate")

\* (len(wh_arrested)/len(white))*100
WhArrestRate ==
  /\ pc = "wh_arrest_rate"
  /\ Display("wh_arrest_rate", 100 * len(env.wh_arrested), len(env.white),
             "b_2_b")

\* the two masks joined with | in place of &
B2BEither ==
  /\ pc = "b_2_b"
  /\ Subset("b_2_b", env.crimes_geodf_20,
            {"officer_ethnicity", "self_defined_ethnicity"},
            MaskOr(ColContains(env.crimes_geodf_20, "officer_ethnicity", "Black"),
                   ColContains(env.crimes_geodf_20, "self_defined_ethnicity", "Black")),
            "b_2_b_share")

\* b_2_b = crimes_geodf_20[<'Black' in officer_ethnicity> & <'Black' in self_defined_ethnicity>]
B2B ==
  /\ pc = "b_2_b"
  /\ Subset("b_2_b", env.crimes_geodf_20,
            {"officer_ethnicity", "self_defined_ethnicity"},
            MaskAnd(ColContains(env.crimes_geodf_20, "officer_ethnicity", "Black"),
                    ColContains(env.crimes_geodf_20, "self_defined_ethnicity", "Black")),
            "b_2_b_share")

\* (len(b_2_b)/len(black))*100
B2BShare ==
  /\ pc = "b_2_b_share"
  /\ Display("b_2_b_share", 100 * len(env.b_2_b), len(env.black),
             "export_crimes_20")

ExportCrimes ==
  /\ pc = "export_crimes_20"
  /\ ToFile(env.crimes_geodf_20, "./outputs/crimes_20.gpkg", "export_black_20")

ExportBlack ==
  /\ pc = "export_black_20"
  /\ ToFile(env.black, "./outputs/black_20.gpkg", "export_white_20")

ExportWhite ==
  /\ pc = "export_white_20"
  /\ ToFile(env.white, "./outputs/white_20.gpkg", "export_black_youth_20")

ExportBlackYouth ==
  /\ pc = "export_black_youth_20"
  /\ ToFile(env.black_youth, "./outputs/black_youth_20.gpkg",
            "export_white_youth_20")

ExportWhiteYouth ==
  /\ pc = "export_white_youth_20"
  /\ ToFile(env.white_youth, "./outputs/white_youth_20.gpkg", "url_iso")

\* latitude, longitude, TOKEN and url_iso: the isochrone query for the 5 and
\* 10 minute walking contours around Liverpool Central
UrlIso ==
  /\ pc = "url_iso"
  /\ Assign("url_iso",
            [profile |-> "walking", longitude |-> "-2.982918",
             latitude |-> "53.404856", contours_minutes |-> <<5, 10>>,
             polygons |-> TRUE, access_token |-> "mapbox_public_token"],
            "iso_get")

\* r = requests.get(url_iso)
IsoGet ==
  /\ pc = "iso_get"
  /\ \E resp \in IsochroneResponses : r' = <<resp>>
  /\ gets' = gets + 1
  /\ pc' = "walk"
  /\ UNCHANGED <<err, month, months, env, Out, files, served, requested>>

\* walk = json.loads(r.content)
Walk ==
  /\ pc = "walk"
  /\ LET loaded == json_loads(r[1].content)
     IN IF ~loaded.ok THEN Fail(loaded.exc)
        ELSE Assign("walk", loaded.value, "split")

\* walk_5 = walk['features'][0]; walk_10 = walk['features'][1]
Split ==
  /\ pc = "split"
  /\ IF "features" \notin DOMAIN env.walk THEN Fail("KeyError")
     ELSE IF Len(env.walk.features) < 2 THEN Fail("IndexError")
     ELSE /\ env' = Bind(Bind(env, "walk_5", env.walk.features[1]),
                         "walk_10", env.walk.features[2])
          /\ pc' = "from_features"
          /\ UNCHANGED <<err, month, r, months, gets, Out, files, served, requested>>

\* walk_5 = gpd.GeoDataFrame.from_features([walk_5], crs="EPSG:4326"), and
\* the same for walk_10
FromFeatures ==
  /\ pc = "from_features"
  /\ env' = Bind(Bind(env, "walk_5", from_features(<<env.walk_5>>, "EPSG:4326")),
                 "walk_10", from_features(<<env.walk_10>>, "EPSG:4326"))
  /\ pc' = "export_walk_5"
  /\ UNCHANGED <<err, month, r, months, gets, Out, files, served, requested>>

ExportWalk5 ==
  /\ pc = "export_walk_5"
  /\ ToFile(env.walk_5, "./outputs/walk_5.gpkg", "export_walk_10")

ExportWalk10 ==
  /\ pc = "export_walk_10"
  /\ ToFile(env.walk_10, "./outputs/walk_10.gpkg", "done")

Next ==
  \/ FetchMonth \/ ParseMonth \/ Concat \/ GeoTag
  \/ Black \/ White \/ BkPercentage \/ WhPercentage
  \/ BkOverrepresentation \/ WhUnderrepresentation \/ BlackPerDay
  \/ BlackYouth \/ BlackYouthShare \/ BkYouthSex \/ BkYouthMaleShare
  \/ BkYouthPercentage \/ WhiteYouth \/ WhYouthPercentage \/ YouthRatio
  \/ Arrested \/ BkArrested \/ WhArrested \/ BkArrestRate \/ WhArrestRate
  \/ B2B \/ B2BShare
  \/ ExportCrimes \/ ExportBlack \/ ExportWhite \/ ExportBlackYouth
  \/ ExportWhiteYouth
  \/ UrlIso \/ IsoGet \/ Walk \/ Split \/ FromFeatures
  \/ ExportWalk5 \/ ExportWalk10

Spec == Init /\ [][Next]_vars

\* the same run, the police API free to send the bulk payload as well
SpecBulk == Init /\ [][Next \/ FetchBulk]_vars

----------------------------------------------------------------------------
(* Properties.  Substring containment and selection are restated here from *)
(* their meaning, not from the operators the pipeline uses.                *)

\* pat occurs in the value v: v is a string of the form prefix + pat + suffix
OccursIn(v, pat) ==
  /\ v # None
  /\ LET s == Chars[v]
         p == Chars[pat]
     IN \E a \in 0..Len(s) :
          /\ a + Len(p) <= Len(s)
          /\ s = SubSeq(s, 1, a) \o p \o SubSeq(s, a + Len(p) + 1, Len(s))

\* the positions of the rows of df whose column col contains pat
Where(df, col, pat) ==
  {i \in 1..Len(df.rows) : OccursIn(df.rows[i].cols[col], pat)}

\* the rows at the positions kept, in their order: the k-th of them is the
\* row that has k kept positions up to and including its own
RowsAt(rows, kept) ==
  [k \in 1..Cardinality(kept) |->
     rows[CHOOSE i \in kept : Cardinality({j \in kept : j <= i}) = k]]

Bound(name) == name \in DOMAIN env

RECURSIVE RowsBefore(_, _)
\* rows held by the frames in front of frame m
RowsBefore(frames, m) ==
  IF m = 1 THEN 0
  ELSE RowsBefore(frames, m - 1) + Len(frames[m - 1].rows)

\* the response in hand is a JSON array
HoldsArray == r # <<>> /\ r[1].content.json /\ r[1].content.value.type = "list"

\* C1: the annual table is the twelve month tables one after the other in
\* month order, each month's rows in the order the API sent them: its length
\* is the sum of the twelve lengths and row k stems from the k-th record sent
C1_AnnualIsMonthsInOrder ==
  [][pc = "concat" =>
       LET y == env'.yearly_crimes_20.rows
       IN /\ Len(months) = NumMonths
          /\ Len(y) = RowsBefore(months, NumMonths + 1)
          /\ \A m \in 1..NumMonths : \A i \in 1..Len(months[m].rows) :
               y[RowsBefore(months, m) + i] = months[m].rows[i]
          /\ Len(y) = Len(served)
          /\ \A k \in 1..Len(y) :
               /\ y[k].cols.date = served[k].datetime
               /\ y[k].cols.self_defined_ethnicity = served[k].self_defined_ethnicity]_vars

\* two months contributed one row each, whichever records they are
C1_Witness ==
  /\ pc = "crimes_geodf_20"
  /\ Bound("yearly_crimes_20")
  /\ len(env.yearly_crimes_20) = 2
  /\ env.yearly_crimes_20.rows[1].index = 0
  /\ env.yearly_crimes_20.rows[2].index = 0

\* a raw record with every key parse_ss_event reads
Complete(cr) ==
  /\ {"age_range", "outcome", "involved_person", "gender",
      "self_defined_ethnicity", "location", "datetime",
      "officer_defined_ethnicity"} \subseteq DOMAIN cr
  /\ {"latitude", "longitude", "street"} \subseteq DOMAIN cr.location

\* the normalized record the specification names for a raw record
NormalizedRecord(cr) ==
  [age_range |-> cr.age_range,
   outcome |-> cr.outcome,
   involved_person |-> cr.involved_person,
   gender |-> cr.gender,
   self_defined_ethnicity |-> cr.self_defined_ethnicity,
   street_id |-> cr.location.street.id,
   longitude |-> FloatOf[cr.location.longitude].value,
   latitude |-> FloatOf[cr.location.latitude].value,
   date |-> cr.datetime,
   officer_ethnicity |-> cr.officer_defined_ethnicity]

\* C2: a month whose records all have the required keys is normalized into
\* one record per raw record, in input order, under exactly the field names
\* age_range, outcome, involved_person, gender, self_defined_ethnicity,
\* street_id, longitude, latitude, date, officer_ethnicity
C2_NormalizedFields ==
  [][(/\ pc = "get_month_crime"
      /\ HoldsArray
      /\ \A i \in 1..Len(r[1].content.value.items) :
           Complete(r[1].content.value.items[i]))
     => (/\ Len(months') = Len(months) + 1
         /\ LET items == r[1].content.value.items
                t == months'[Len(months')].rows
            IN /\ Len(t) = Len(items)
               /\ \A i \in 1..Len(items) :
                    t[i].cols = NormalizedRecord(items[i]))]_vars

\* C3: a month holding a record without location.latitude does not stop the
\* run: the month table is built from the records that have one
C3_MissingLatitudeSkipped ==
  [][(/\ pc = "get_month_crime"
      /\ HoldsArray
      /\ \E i \in 1..Len(r[1].content.value.items) :
           "latitude" \notin DOMAIN r[1].content.value.items[i].location)
     => (/\ pc' # "error"
         /\ Len(months') = Len(months) + 1
         /\ len(months'[Len(months')]) =
              Cardinality({i \in 1..Len(r[1].content.value.items) :
                 "latitude" \in DOMAIN r[1].content.value.items[i].location}))]_vars

\* sub holds exactly the rows of src at the positions kept, in the order of src
IsSelection(sub, src, kept) == sub.rows = RowsAt(src.rows, kept)

\* C4: every subset is exactly the rows of its source whose field contains
\* the search string somewhere, case-sensitively, and no selected row has a
\* missing value in that field
C4_SubstringSelection ==
  /\ Bound("black") =>
       /\ IsSelection(env.black, env.crimes_geodf_20,
                      Where(env.crimes_geodf_20, "self_defined_ethnicity", "Black"))
       /\ \A i \in 1..len(env.black) :
            env.black.rows[i].cols.self_defined_ethnicity # None
  /\ Bound("white") =>
       /\ IsSelection(env.white, env.crimes_geodf_20,
                      Where(env.crimes_geodf_20, "self_defined_ethnicity", "White"))
       /\ \A i \in 1..len(env.white) :
            env.white.rows[i].cols.self_defined_ethnicity # None
  /\ Bound("black_youth") =>
       /\ IsSelection(env.black_youth, env.black,
                      Where(env.black, "age_range", "18-24"))
       /\ \A i \in 1..len(env.black_youth) :
            env.black_youth.rows[i].cols.age_range # None
  /\ Bound("white_youth") =>
       IsSelection(env.white_youth, env.white,
                   Where(env.white, "age_range", "18-24"))
  /\ Bound("bk_youth_sex") =>
       /\ IsSelection(env.bk_youth_sex, env.black_youth,
                      Where(env.black_youth, "gender", "Male"))
       /\ \A i \in 1..len(env.bk_youth_sex) :
            env.bk_youth_sex.rows[i].cols.gender = "Male"
  /\ Bound("arrested") =>
       IsSelection(env.arrested, env.crimes_geodf_20,
                   Where(env.crimes_geodf_20, "outcome", "Arrest"))
  /\ Bound("bk_arrested") =>
       IsSelection(env.bk_arrested, env.crimes_geodf_20,
                   Where(env.crimes_geodf_20, "self_defined_ethnicity", "Black")
                     \cap Where(env.crimes_geodf_20, "outcome", "Arrest"))
  /\ Bound("wh_arrested") =>
       IsSelection(env.wh_arrested, env.crimes_geodf_20,
                   Where(env.crimes_geodf_20, "self_defined_ethnicity", "White")
                     \cap Where(env.crimes_geodf_20, "outcome", "Arrest"))
  /\ Bound("b_2_b") =>
       IsSelection(env.b_2_b, env.crimes_geodf_20,
                   Where(env.crimes_geodf_20, "officer_ethnicity", "Black")
                     \cap Where(env.crimes_geodf_20, "self_defined_ethnicity", "Black"))

\* all nine subsets exist; the year holds a record without ethnicity, left
\* out, and one whose label has 'Black' in its middle, selected
C4_Witness ==
  /\ Bound("b_2_b")
  /\ \E i \in 1..len(env.crimes_geodf_20) :
       env.crimes_geodf_20.rows[i].cols.self_defined_ethnicity = None
  /\ \E i \in 1..len(env.black) :
       env.black.rows[i].cols.self_defined_ethnicity =
         "Mixed/Multiple ethnic groups - White and Black Caribbean"

\* C5: once the twelve months are concatenated, the run goes on to a spatial
\* table with one row and one point per record sent (N), a Black subset with
\* one row per record whose self_defined_ethnicity contains 'Black' (B) and a
\* Black-youth subset with one row per such record whose age_range contains
\* '18-24' (Y)
C5_EndToEnd ==
  /\ (Bound("yearly_crimes_20") /\ pc # "crimes_geodf_20") =>
       /\ Bound("crimes_geodf_20")
       /\ len(env.crimes_geodf_20) = Len(served)
       /\ \A i \in 1..len(env.crimes_geodf_20) :
            LET cols == env.crimes_geodf_20.rows[i].cols
            IN /\ cols.geometry.type = "Point"
               /\ cols.geometry.x = cols.longitude
               /\ cols.geometry.y = cols.latitude
  /\ (Bound("crimes_geodf_20") /\ pc # "black") =>
       /\ Bound("black")
       /\ len(env.black) =
            Cardinality({i \in 1..Len(served) :
               OccursIn(served[i].self_defined_ethnicity, "Black")})
  /\ (Bound("black") /\ pc \notin {"white", "bk_percentage", "wh_percentage",
                                   "bk_overrepresentation",
                                   "wh_underrepresentation", "black_per_day",
                                   "black_youth"}) =>
       /\ Bound("black_youth")
       /\ len(env.black_youth) =
            Cardinality({i \in 1..Len(served) :
               /\ OccursIn(served[i].self_defined_ethnicity, "Black")
               /\ OccursIn(served[i].age_range, "18-24")})

\* walk_5 and walk_10 have become tables
WalksBuilt ==
  /\ Bound("walk_5") /\ Bound("walk_10")
  /\ "rows" \in DOMAIN env.walk_5 /\ "rows" \in DOMAIN env.walk_10

\* C6: a response with two features is split into two tables of one row each,
\* both in EPSG:4326, the first holding the first feature and the second the
\* second, each with its feature's ring vertex for vertex
C6_IsochroneSplit ==
  (WalksBuilt /\ Len(env.walk.features) = 2) =>
    LET fs == env.walk.features
    IN /\ len(env.walk_5) = 1 /\ len(env.walk_10) = 1
       /\ env.walk_5.crs = "EPSG:4326" /\ env.walk_10.crs = "EPSG:4326"
       /\ env.walk_5.rows[1].cols.contour = fs[1].properties.contour
       /\ env.walk_10.rows[1].cols.contour = fs[2].properties.contour
       /\ env.walk_5.rows[1].cols.geometry.exterior = fs[1].geometry.coordinates[1]
       /\ env.walk_10.rows[1].cols.geometry.exterior = fs[2].geometry.coordinates[1]
       /\ {env.walk_5.rows[1].cols.contour, env.walk_10.rows[1].cols.contour}
            = {5, 10}

\* both polygons were split, built and written
C6_Witness ==
  /\ pc = "done"
  /\ WalksBuilt
  /\ Len(env.walk_5.rows[1].cols.geometry.exterior)
       # Len(env.walk_10.rows[1].cols.geometry.exterior)
  /\ "./outputs/walk_10.gpkg" \in DOMAIN files

\* the largest value each percentage may take: 1 for a fraction, 100 for a
\* percentage
PercentTop ==
  [bk_percentage |-> 1, wh_percentage |-> 1, black_youth_share |-> 100,
   bk_youth_male_share |-> 1, bk_youth_percentage |-> 1,
   wh_youth_percentage |-> 100, bk_arrest_rate |-> 100,
   wh_arrest_rate |-> 100, b_2_b_share |-> 100]

\* 0 <= q <= top
InRange(q, top) == q.den > 0 /\ 0 <= q.num /\ q.num <= top * q.den

\* C7 as stated: every percentage computed lies in [0, 1] or [0, 100]
C7_AllPercentagesBounded ==
  \A n \in DOMAIN Out \cap DOMAIN PercentTop : InRange(Out[n], PercentTop[n])

\* C7 amended: the percentages of a subset over a table it was selected from
\* lie in [0, 1] or [0, 100]; the two over a fixed population are never
\* negative and stay within the range as long as the subset is no larger
\* than the population
C7_SubsetPercentagesBounded ==
  /\ \A n \in (DOMAIN Out \cap DOMAIN PercentTop)
              \ {"bk_youth_percentage", "wh_youth_percentage"} :
       InRange(Out[n], PercentTop[n])
  /\ "bk_youth_percentage" \in DOMAIN Out =>
       /\ Out.bk_youth_percentage.num >= 0
       /\ len(env.black_youth) <= BlackYouthPopulation
            <=> InRange(Out.bk_youth_percentage, 1)
  /\ "wh_youth_percentage" \in DOMAIN Out =>
       /\ Out.wh_youth_percentage.num >= 0
       /\ len(env.white_youth) <= WhiteYouthPopulation
            => InRange(Out.wh_youth_percentage, 100)

\* every percentage was computed, the b_2_b share strictly inside its range
C7_Witness ==
  /\ DOMAIN PercentTop \subseteq DOMAIN Out
  /\ Out.b_2_b_share.num > 0
  /\ Out.b_2_b_share.num < 100 * Out.b_2_b_share.den

\* the cells that divide by the length of a table, and that table
DenominatorOf ==
  [bk_percentage |-> "crimes_geodf_20", wh_percentage |-> "crimes_geodf_20",
   black_youth_share |-> "black", bk_youth_male_share |-> "black_youth",
   bk_arrest_rate |-> "black", wh_arrest_rate |-> "white",
   b_2_b_share |-> "black"]

Refiltered(t, mask) == BoolIndex(t, mask) = t

\* C9: every subset, filtered again with its own field and search string, is
\* the identical table: same rows, same order
C9_FilterIdempotent ==
  /\ Bound("black") =>
       Refiltered(env.black,
                  ColContains(env.black, "self_defined_ethnicity", "Black"))
  /\ Bound("white") =>
       Refiltered(env.white,
                  ColContains(env.white, "self_defined_ethnicity", "White"))
  /\ Bound("black_youth") =>
       Refiltered(env.black_youth,
                  ColContains(env.black_youth, "age_range", "18-24"))
  /\ Bound("white_youth") =>
       Refiltered(env.white_youth,
                  ColContains(env.white_youth, "age_range", "18-24"))
  /\ Bound("bk_youth_sex") =>
       Refiltered(env.bk_youth_sex,
                  ColContains(env.bk_youth_sex, "gender", "Male"))
  /\ Bound("arrested") =>
       Refiltered(env.arrested,
                  ColContains(env.arrested, "outcome", "Arrest"))
  /\ Bound("bk_arrested") =>
       Refiltered(env.bk_arrested,
                  MaskAnd(ColContains(env.bk_arrested, "self_defined_ethnicity", "Black"),
                          ColContains(env.bk_arrested, "outcome", "Arrest")))
  /\ Bound("wh_arrested") =>
       Refiltered(env.wh_arrested,
                  MaskAnd(ColContains(env.wh_arrested, "self_defined_ethnicity", "White"),
                          ColContains(env.wh_arrested, "outcome", "Arrest")))
  /\ Bound("b_2_b") =>
       Refiltered(env.b_2_b,
                  MaskAnd(ColContains(env.b_2_b, "officer_ethnicity", "Black"),
                          ColContains(env.b_2_b, "self_defined_ethnicity", "Black")))

\* all nine subsets exist and the Black filter both kept and dropped a row
C9_Witness ==
  /\ Bound("b_2_b")
  /\ len(env.black) >= 1
  /\ len(env.black) < len(env.crimes_geodf_20)

\* C10: a response with a non-2xx status never becomes a month table: the
\* call fails and the list of month tables stays as it was
C10_NonSuccessIsFailure ==
  [][(pc = "get_month_crime" /\ r # <<>> /\ ~Success(r[1].status_code))
     => (pc' = "error" /\ months' = months)]_vars

----------------------------------------------------------------------------
(* C11: one failing month *)

\* the call in progress has failed: the service answered with a non-2xx
\* status, or the body is not JSON, or a record cannot be normalized
MonthFailed ==
  /\ pc = "get_month_crime"
  /\ r # <<>>
  /\ \/ ~Success(r[1].status_code)
     \/ ~json_loads(r[1].content).ok
     \/ ~parsing(json_loads(r[1].content).value).ok

\* C11: when the fetch or the normalization of a month fails, the run either
\* aborts without an annual table, or goes on with no table standing in for
\* that month; it never carries on as if the month had been read.
C11_FailedMonthOmittedOrAborted ==
  [][MonthFailed
     => \/ pc' = "error" /\ months' = months
              /\ "yearly_crimes_20" \notin DOMAIN env'
        \/ pc' # "error" /\ months' = months]_vars

\* the part of C11 the code keeps: a failure that raises ends the run
C11_RaisedFailureAborts ==
  [][(MonthFailed /\ Success(r[1].status_code))
     => (pc' = "error" /\ months' = months
         /\ "yearly_crimes_20" \notin DOMAIN env')]_vars

----------------------------------------------------------------------------
(* C12: a failing export *)

\* the files of the notebook in the order their to_file calls run
ExportPaths ==
  <<"./outputs/crimes_20.gpkg", "./outputs/black_20.gpkg",
    "./outputs/white_20.gpkg", "./outputs/black_youth_20.gpkg",
    "./outputs/white_youth_20.gpkg", "./outputs/walk_5.gpkg",
    "./outputs/walk_10.gpkg">>

\* the files written are the first k of the export sequence
WrittenPrefix(k) == DOMAIN files = {ExportPaths[i] : i \in 1..k}

ExportFailed == pc = "error" /\ err = "OSError"

\* C12: no step, the step of a failing export included, removes or rewrites
\* a file an earlier export wrote: every export completed before the failing
\* one is still there, unchanged, and the files on disk are always the first
\* ones of the export sequence.
C12_FailedExportKeepsEarlierFiles ==
  [][/\ \A path \in DOMAIN files :
          path \in DOMAIN files' /\ files'[path] = files[path]
     /\ \E k \in 0..Len(ExportPaths) : WrittenPrefix(k)']_vars

\* the third export has failed: the first two files are on disk
C12_Witness ==
  /\ ExportFailed
  /\ WrittenPrefix(2)
  /\ files["./outputs/crimes_20.gpkg"] = env.crimes_geodf_20
  /\ files["./outputs/black_20.gpkg"] = env.black

----------------------------------------------------------------------------
(* C13: the twelve GETs *)

\* a call of get_month_crime has sent its GET and not yet returned
CallInProgress == month < NumMonths /\ r # <<>>

\* C13: the police GETs sent so far ask for the months 2020-01, 2020-02, ...
\* in that order, one per call of get_month_crime: as many as calls have
\* returned, plus one while a call holds its response; a GET is never sent
\* while the month before it is not yet normalized into its table, and once
\* the annual table exists exactly twelve GETs have been sent.
C13_TwelveSequentialGets ==
  /\ \A i \in 1..Len(requested) :
        /\ i <= 12
        /\ requested[i].year = "2020"
        /\ requested[i].month = MonthArgs[i]
  /\ Len(requested) = month + (IF CallInProgress THEN 1 ELSE 0)
  /\ pc = "get_month_crime" => Len(months) = month
  /\ Bound("yearly_crimes_20") => Len(requested) = 12
  /\ gets >= Len(requested) /\ gets <= Len(requested) + 1
  /\ gets > Len(requested) => Len(requested) = 12

\* the annual table was built from twelve GETs, December the last
C13_Witness ==
  /\ Bound("yearly_crimes_20")
  /\ Len(env.yearly_crimes_20.rows) = MaxRows
  /\ Len(requested) = 12
  /\ requested[1] = DateParam("2020", "01")
  /\ requested[12] = DateParam("2020", "12")

----------------------------------------------------------------------------
(* C14: which polygon is which *)

\* the one contour value of a table built from one feature
ContourOf(gdf) == gdf.rows[1].cols.contour

\* C14: whenever the response holds one contour=5 and one contour=10 feature,
\* in either order, walk_5 and the file walk_5.gpkg hold the 5 minute
\* polygon and walk_10 and walk_10.gpkg the 10 minute one.
C14_WalkNamesMatchContours ==
  (/\ WalksBuilt
   /\ {f.properties.contour : f \in {env.walk.features[i] :
                                       i \in 1..Len(env.walk.features)}} = {5, 10})
  => /\ ContourOf(env.walk_5) = 5
     /\ ContourOf(env.walk_10) = 10
     /\ "./outputs/walk_5.gpkg" \in DOMAIN files
          => ContourOf(files["./outputs/walk_5.gpkg"]) = 5
     /\ "./outputs/walk_10.gpkg" \in DOMAIN files
          => ContourOf(files["./outputs/walk_10.gpkg"]) = 10

\* what the code does instead: the names follow the position in the response
C14_WalkNamesFollowPosition ==
  WalksBuilt
  => /\ ContourOf(env.walk_5) = env.walk.features[1].properties.contour
     /\ ContourOf(env.walk_10) = env.walk.features[2].properties.contour

----------------------------------------------------------------------------
(* C15: Black and White *)

\* the rows of a table, as a set
RowSet(df) == {df.rows[i] : i \in 1..Len(df.rows)}

\* C15: no row is in both the Black and the White subset, so the two hold
\* together at most as many rows as the spatial table, and the two
\* percentages add up to at most 1.
C15_BlackWhiteDisjoint ==
  /\ (Bound("black") /\ Bound("white"))
     => /\ RowSet(env.black) \cap RowSet(env.white) = {}
        /\ len(env.black) + len(env.white) <= len(env.crimes_geodf_20)
  /\ ("bk_percentage" \in DOMAIN Out /\ "wh_percentage" \in DOMAIN Out)
     => LET b == Out.bk_percentage
            w == Out.wh_percentage
        IN b.num * w.den + w.num * b.den <= b.den * w.den

\* the positions of the spatial table whose label names both groups
BothLabels ==
  Where(env.crimes_geodf_20, "self_defined_ethnicity", "Black")
    \cap Where(env.crimes_geodf_20, "self_defined_ethnicity", "White")

\* what the code does instead: the two subsets share exactly the rows whose
\* label contains both 'Black' and 'White', and exceed the spatial table by
\* at most that many rows
C15_OverlapIsBothLabels ==
  (Bound("black") /\ Bound("white"))
  => /\ RowSet(env.black) \cap RowSet(env.white)
          = {env.crimes_geodf_20.rows[i] : i \in BothLabels}
     /\ len(env.black) + len(env.white)
          <= len(env.crimes_geodf_20) + Cardinality(BothLabels)

----------------------------------------------------------------------------
(* C16: nesting of the subsets *)

RECURSIVE IsSubSeq(_, _)
\* the rows of a are rows of b, in the order b has them
IsSubSeq(a, b) ==
  IF a = <<>> THEN TRUE
  ELSE IF b = <<>> THEN FALSE
  ELSE IF Head(a) = Head(b) THEN IsSubSeq(Tail(a), Tail(b))
  ELSE IsSubSeq(a, Tail(b))

\* sub, once both names are bound, holds rows of src in src's order
Nested(sub, src) ==
  (Bound(sub) /\ Bound(src)) => IsSubSeq(env[sub].rows, env[src].rows)

\* the names the subset cells bind, and the table they all come from
SubsetNames ==
  {"crimes_geodf_20", "black", "white", "black_youth", "bk_youth_sex",
   "white_youth", "arrested", "bk_arrested", "wh_arrested", "b_2_b"}

SubsetsNest ==
  /\ Nested("bk_youth_sex", "black_youth")
  /\ Nested("black_youth", "black")
  /\ Nested("white_youth", "white")
  /\ \A sub \in SubsetNames : Nested(sub, "crimes_geodf_20")
  /\ Nested("b_2_b", "black")
  /\ Bound("bk_arrested")
     => LET src == env.crimes_geodf_20.rows
        IN env.bk_arrested.rows
             = RowsAt(src, {i \in 1..Len(src) :
                              /\ src[i] \in RowSet(env.black)
                              /\ src[i] \in RowSet(env.arrested)})

\* C16: after every step the subsets nest (bk_youth_sex in black_youth in
\* black, white_youth in white, each subset in the spatial table, b_2_b in
\* black, all in source row order, bk_arrested exactly the rows in both
\* black and arrested), and no step changes the spatial table or a subset
\* already made.
C16_SubsetsNestSourceUnchanged ==
  [][/\ SubsetsNest'
     /\ \A name \in SubsetNames \cap DOMAIN env :
          name \in DOMAIN env' /\ env'[name] = env[name]]_vars

\* every subset was taken, some of them proper and not empty
C16_Witness ==
  /\ pc = "done"
  /\ len(env.black) < len(env.crimes_geodf_20)
  /\ len(env.bk_youth_sex) = 1
  /\ len(env.bk_arrested) = 1
  /\ len(env.b_2_b) = 1
  /\ files["./outputs/crimes_20.gpkg"] = env.crimes_geodf_20

====
